---- MODULE Spec2Model ----
(***************************************************************************)
(* Data-quality engine of src/Junior: the metric family (metrics.py) and   *)
(* the checklist evaluator Report (report.py).                             *)
(*                                                                         *)
(* Python values are records [t, n, d]: t is the type tag, n/d the number  *)
(* (d = 1 for integers).  A table is [kind, rows]; a row is a record       *)
(* [x, y, z, d] of cells: x, y, z numeric or null, d a date column holding *)
(* text.  A pandas null (None/NaN) and a Spark null are both None.         *)
(***************************************************************************)
EXTENDS Integers, Sequences, FiniteSets, TLC

\* ------------------------------------------------------------------ bounds
MaxRows == 3      \* rows of a table in the metric-layer specification
MaxChecks == 3    \* entries of a checklist
MaxFits == 2      \* fit calls made on one Report
MaxDay == 2       \* date strings name the days 1..MaxDay
Today == 3        \* the day datetime.now() falls on
MaxPctChecks == 8 \* entries of a checklist in the percentage specification
TieChecks == 32   \* entries of a checklist whose percentages fall on exact binary ties

\* ------------------------------------------------------------------ values
None == [t |-> "none", n |-> 0, d |-> 1]
NaN == [t |-> "nan", n |-> 0, d |-> 1]
NaT == [t |-> "nat", n |-> 0, d |-> 1]
PyInt(i) == [t |-> "int", n |-> i, d |-> 1]
\* A str cell: k = 0 is the text "abc" (no date, and above every date string
\* in string order), k > 0 the date string of day k under fmt.
PyStr(k) == [t |-> "str", n |-> k, d |-> 1]
Timestamp(k) == [t |-> "ts", n |-> k, d |-> 1]

RECURSIVE GCD(_, _)
GCD(a, b) == IF b = 0 THEN a ELSE GCD(b, a % b)

\* The float a/b for b > 0 (equal fractions are equal floats).
PyFloat(a, b) ==
    LET g == GCD(IF a < 0 THEN -a ELSE a, b)
    IN [t |-> "float", n |-> a \div g, d |-> b \div g]

IsNumber(v) == v.t \in {"int", "float"}
\* a <= b and a < b on ints and floats.
NumLe(a, b) == a.n * b.d <= b.n * a.d
NumLt(a, b) == a.n * b.d < b.n * a.d

\* ------------------------------------------------------------------ exceptions
NoExc == [type |-> "", msg |-> ""]
Exc(type, msg) == [type |-> type, msg |-> msg]
ZeroDivisionError == Exc("ZeroDivisionError", "division by zero")
KeyError(key) == Exc("KeyError", key)
UnboundLocalError == Exc("UnboundLocalError", "result")
AttributeError == Exc("AttributeError", "report_")
StrftimeError == Exc("ValueError", "NaTType does not support strftime")
StrptimeNoneError == Exc("TypeError", "strptime() argument 1 must be str, not None")
StrptimeFormatError == Exc("ValueError", "time data does not match format")
CompareError == Exc("TypeError", "'<=' not supported between instances of 'int' and 'str'")
\* The assertion of to_str (line 185).
NotFittedError == Exc("AssertionError", "This Report instance is not fitted yet.")

\* What a call produced: the exception raised (NoExc when it returned), the
\* returned mapping, and the rows of the table after the call.
Return(result, rows) == [exc |-> NoExc, result |-> result, rows |-> rows]
Raise(e, rows) == [exc |-> e, result |-> [unbound |-> TRUE], rows |-> rows]

\* {"total": n, "count": k, "delta": k / n}; numpy is TRUE when k is a numpy
\* integer (the result of Series.sum()), whose division by 0 gives nan with a
\* warning, and FALSE when k is a Python int, whose division by 0 raises.
Counting(n, k, numpy, rows) ==
    IF n = 0
    THEN IF numpy
         THEN Return([total |-> PyInt(n), count |-> PyInt(k), delta |-> NaN], rows)
         ELSE Raise(ZeroDivisionError, rows)
    ELSE Return([total |-> PyInt(n), count |-> PyInt(k), delta |-> PyFloat(k, n)], rows)

\* pandas isnull / Spark isNull | isnan.
IsNull(c) == c.t \in {"none", "nat"}

\* ------------------------------------------------------------------ metrics
\* Metric instances are records [kind, <the dataclass fields>].
CountTotal == [kind |-> "CountTotal"]
CountZeros(column) == [kind |-> "CountZeros", column |-> column]
CountNull(columns, aggregation) ==
    [kind |-> "CountNull", columns |-> columns, aggregation |-> aggregation]
CountDuplicates(columns) == [kind |-> "CountDuplicates", columns |-> columns]
CountValue(column, value) == [kind |-> "CountValue", column |-> column, value |-> value]
CountBelowValue(column, value, strict) ==
    [kind |-> "CountBelowValue", column |-> column, value |-> value, strict |-> strict]
CountBelowColumn(column_x, column_y, strict) ==
    [kind |-> "CountBelowColumn", column_x |-> column_x, column_y |-> column_y,
     strict |-> strict]
CountRatioBelow(column_x, column_y, column_z, strict) ==
    [kind |-> "CountRatioBelow", column_x |-> column_x, column_y |-> column_y,
     column_z |-> column_z, strict |-> strict]
CountLag(column) == [kind |-> "CountLag", column |-> column]

CountTotal_call_pandas(m, rows) == Return([total |-> PyInt(Len(rows))], rows)
CountTotal_call_pyspark(m, rows) == Return([total |-> PyInt(Len(rows))], rows)

\* k = sum(df[column] == 0): the builtin sum, a Python int on an empty frame.
CountZeros_call_pandas(m, rows) ==
    LET IsZero(r) == r[m.column] = PyInt(0)
    IN Counting(Len(rows), Cardinality({i \in DOMAIN rows : IsZero(rows[i])}), FALSE, rows)
CountZeros_call_pyspark(m, rows) ==
    LET IsZero(r) == r[m.column] = PyInt(0)
    IN Counting(Len(rows), Cardinality({i \in DOMAIN rows : IsZero(rows[i])}), FALSE, rows)

\* isnull().any(axis=1) / isnull().all(axis=1), then Series.sum().
CountNull_call_pandas(m, rows) ==
    LET cols == {m.columns[i] : i \in 1..Len(m.columns)}
        Flag(r) == IF m.aggregation = "any"
                   THEN \E c \in cols : IsNull(r[c])
                   ELSE \A c \in cols : IsNull(r[c])
    IN Counting(Len(rows), Cardinality({i \in DOMAIN rows : Flag(rows[i])}), TRUE, rows)

\* Spark's three-valued logic on "true" / "false" / "null".
SqlOr(a, b) == IF a = "true" \/ b = "true" THEN "true"
               ELSE IF a = "null" \/ b = "null" THEN "null" ELSE "false"
SqlAnd(a, b) == IF a = "false" \/ b = "false" THEN "false"
                ELSE IF a = "null" \/ b = "null" THEN "null" ELSE "true"
\* when(cond, True): True where cond holds, NULL elsewhere.
When(cond) == IF cond THEN "true" ELSE "null"

\* The condition column built over columns[1:], starting from columns[0].
RECURSIVE NullCondition(_, _, _, _)
NullCondition(r, columns, aggregation, i) ==
    IF i = 1 THEN When(IsNull(r[columns[1]]))
    ELSE IF aggregation = "any"
         THEN SqlOr(NullCondition(r, columns, aggregation, i - 1), When(IsNull(r[columns[i]])))
         ELSE SqlAnd(NullCondition(r, columns, aggregation, i - 1), When(IsNull(r[columns[i]])))

\* withColumn builds a new frame: df itself keeps its columns.
CountNull_call_pyspark(m, rows) ==
    LET Flag(r) == NullCondition(r, m.columns, m.aggregation, Len(m.columns)) = "true"
    IN Counting(Len(rows), Cardinality({i \in DOMAIN rows : Flag(rows[i])}), FALSE, rows)

\* The tuple of a row's values on the key columns.
Subset(r, columns) == [i \in 1..Len(columns) |-> r[columns[i]]]

\* df.duplicated(subset=columns) marks a row equal to an EARLIER row on the
\* key (keep='first'); k = len(duplicates).
CountDuplicates_call_pandas(m, rows) ==
    LET dup == {i \in 1..Len(rows) :
                  \E j \in 1..(i - 1) : Subset(rows[j], m.columns) = Subset(rows[i], m.columns)}
    IN Counting(Len(rows), Cardinality(dup), FALSE, rows)

\* groupBy(columns).count() has one row per key; k = the keys with count > 1.
CountDuplicates_call_pyspark(m, rows) ==
    LET keys == {Subset(rows[i], m.columns) : i \in 1..Len(rows)}
        GroupCount(key) == Cardinality({i \in 1..Len(rows) : Subset(rows[i], m.columns) = key})
    IN Counting(Len(rows), Cardinality({key \in keys : GroupCount(key) > 1}), FALSE, rows)

CountValue_call_pandas(m, rows) ==
    LET Hit(r) == r[m.column] = m.value
    IN Counting(Len(rows), Cardinality({i \in DOMAIN rows : Hit(rows[i])}), TRUE, rows)
CountValue_call_pyspark(m, rows) ==
    LET Hit(r) == r[m.column] = m.value
    IN Counting(Len(rows), Cardinality({i \in DOMAIN rows : Hit(rows[i])}), FALSE, rows)

\* Both strategies compare with <, whatever self.strict holds.
CountBelowValue_call_pandas(m, rows) ==
    LET Hit(r) == IsNumber(r[m.column]) /\ NumLt(r[m.column], m.value)
    IN Counting(Len(rows), Cardinality({i \in DOMAIN rows : Hit(rows[i])}), TRUE, rows)
CountBelowValue_call_pyspark(m, rows) ==
    LET Hit(r) == IsNumber(r[m.column]) /\ NumLt(r[m.column], m.value)
    IN Counting(Len(rows), Cardinality({i \in DOMAIN rows : Hit(rows[i])}), FALSE, rows)

\* A comparison with NaN is False in pandas.
CountBelowColumn_call_pandas(m, rows) ==
    LET Hit(r) == /\ IsNumber(r[m.column_x]) /\ IsNumber(r[m.column_y])
                  /\ IF m.strict THEN NumLt(r[m.column_x], r[m.column_y])
                                 ELSE NumLe(r[m.column_x], r[m.column_y])
    IN Counting(Len(rows), Cardinality({i \in DOMAIN rows : Hit(rows[i])}), TRUE, rows)
\* The pyspark strategy with n taken from the filtered frame, so that rows
\* holding a null leave the total as well.
CountBelowColumn_call_pyspark_FilterFirst(m, rows) ==
    LET df == SelectSeq(rows, LAMBDA r : ~IsNull(r[m.column_x]) /\ ~IsNull(r[m.column_y]))
        n == Len(df)
        Hit(r) == IF m.strict THEN NumLt(r[m.column_x], r[m.column_y])
                              ELSE NumLe(r[m.column_x], r[m.column_y])
    IN Counting(n, Cardinality({i \in DOMAIN df : Hit(df[i])}), FALSE, rows)

\* n = df.count() is taken BEFORE the null filter rebinds df.
CountBelowColumn_call_pyspark(m, rows) ==
    LET n == Len(rows)
        df == SelectSeq(rows, LAMBDA r : ~IsNull(r[m.column_x]) /\ ~IsNull(r[m.column_y]))
        Hit(r) == IF m.strict THEN NumLt(r[m.column_x], r[m.column_y])
                              ELSE NumLe(r[m.column_x], r[m.column_y])
    IN Counting(n, Cardinality({i \in DOMAIN df : Hit(df[i])}), FALSE, rows)

Inf == [t |-> "inf", n |-> 1, d |-> 1]
NegInf == [t |-> "inf", n |-> -1, d |-> 1]
\* x / y on a pandas column: NaN with a null operand, +-inf or NaN when y = 0.
PandasDiv(x, y) ==
    IF ~IsNumber(x) \/ ~IsNumber(y) THEN NaN
    ELSE IF y.n = 0 THEN (IF x.n > 0 THEN Inf ELSE IF x.n < 0 THEN NegInf ELSE NaN)
    ELSE IF y.n > 0 THEN PyFloat(x.n, y.n) ELSE PyFloat(-x.n, -y.n)
\* x / y on a Spark column (spark.sql.ansi.enabled off): NULL when y = 0.
SparkDiv(x, y) ==
    IF ~IsNumber(x) \/ ~IsNumber(y) THEN None
    ELSE IF y.n = 0 THEN None
    ELSE IF y.n > 0 THEN PyFloat(x.n, y.n) ELSE PyFloat(-x.n, -y.n)
\* q < z (strict) or q <= z for a quotient q: False on NaN, NULL treated as no match.
QuotientBelow(q, z, strict) ==
    IF q = Inf THEN FALSE
    ELSE IF q = NegInf THEN IsNumber(z)
    ELSE IF ~IsNumber(q) \/ ~IsNumber(z) THEN FALSE
    ELSE IF strict THEN NumLt(q, z) ELSE NumLe(q, z)

CountRatioBelow_call_pandas(m, rows) ==
    LET Hit(r) == QuotientBelow(PandasDiv(r[m.column_x], r[m.column_y]), r[m.column_z], m.strict)
    IN Counting(Len(rows), Cardinality({i \in DOMAIN rows : Hit(rows[i])}), TRUE, rows)
CountRatioBelow_call_pyspark(m, rows) ==
    LET n == Len(rows)
        df == SelectSeq(rows, LAMBDA r : /\ ~IsNull(r[m.column_x]) /\ ~IsNull(r[m.column_y])
                                         /\ ~IsNull(r[m.column_z]))
        Hit(r) == QuotientBelow(SparkDiv(r[m.column_x], r[m.column_y]), r[m.column_z], m.strict)
    IN Counting(n, Cardinality({i \in DOMAIN df : Hit(df[i])}), FALSE, rows)

SetMax(S) == CHOOSE v \in S : \A w \in S : w <= v

\* pd.to_datetime(cell, format=fmt, errors="coerce")
ToDatetime(c) == IF c.t = "ts" THEN c
                 ELSE IF c.t = "str" /\ c.n > 0 THEN Timestamp(c.n)
                 ELSE NaT

\* Line 274 assigns the converted column into df, the caller's frame: the
\* rows handed back are the converted ones, also when strftime raises on NaT.
CountLag_call_pandas(m, rows) ==
    LET df == [i \in 1..Len(rows) |-> [rows[i] EXCEPT ![m.column] = ToDatetime(rows[i][m.column])]]
        days == {df[i][m.column].n : i \in {j \in 1..Len(df) : df[j][m.column].t = "ts"}}
        b == IF days = {} THEN NaT ELSE Timestamp(SetMax(days))
        lag == IF b # NaT THEN PyInt(Today - b.n) ELSE None
    IN IF b = NaT THEN Raise(StrftimeError, df)
       ELSE Return([today |-> PyStr(Today), last_day |-> PyStr(b.n), lag |-> lag], df)

\* max(column) over a string column: the greatest non-null string, or NULL;
\* strptime raises on None (line 289) and on text that is no date.
CountLag_call_pyspark(m, rows) ==
    LET strs == {rows[i][m.column] : i \in {j \in 1..Len(rows) : rows[j][m.column].t = "str"}}
        b == IF strs = {} THEN None
             ELSE IF PyStr(0) \in strs THEN PyStr(0)
             ELSE PyStr(SetMax({s.n : s \in strs}))
    IN IF b = None THEN Raise(StrptimeNoneError, rows)
       ELSE IF b = PyStr(0) THEN Raise(StrptimeFormatError, rows)
       ELSE Return([today |-> PyStr(Today), last_day |-> PyStr(b.n),
                    lag |-> PyInt(Today - b.n)], rows)

call_pandas(m, rows) ==
    CASE m.kind = "CountTotal" -> CountTotal_call_pandas(m, rows)
      [] m.kind = "CountZeros" -> CountZeros_call_pandas(m, rows)
      [] m.kind = "CountNull" -> CountNull_call_pandas(m, rows)
      [] m.kind = "CountDuplicates" -> CountDuplicates_call_pandas(m, rows)
      [] m.kind = "CountValue" -> CountValue_call_pandas(m, rows)
      [] m.kind = "CountBelowValue" -> CountBelowValue_call_pandas(m, rows)
      [] m.kind = "CountBelowColumn" -> CountBelowColumn_call_pandas(m, rows)
      [] m.kind = "CountRatioBelow" -> CountRatioBelow_call_pandas(m, rows)
      [] m.kind = "CountLag" -> CountLag_call_pandas(m, rows)

call_pyspark(m, rows) ==
    CASE m.kind = "CountTotal" -> CountTotal_call_pyspark(m, rows)
      [] m.kind = "CountZeros" -> CountZeros_call_pyspark(m, rows)
      [] m.kind = "CountNull" -> CountNull_call_pyspark(m, rows)
      [] m.kind = "CountDuplicates" -> CountDuplicates_call_pyspark(m, rows)
      [] m.kind = "CountValue" -> CountValue_call_pyspark(m, rows)
      [] m.kind = "CountBelowValue" -> CountBelowValue_call_pyspark(m, rows)
      [] m.kind = "CountBelowColumn" -> CountBelowColumn_call_pyspark(m, rows)
      [] m.kind = "CountRatioBelow" -> CountRatioBelow_call_pyspark(m, rows)
      [] m.kind = "CountLag" -> CountLag_call_pyspark(m, rows)

NotSupportedType == Exc("NotImplementedError", "Not supported type of arg 'df'")

\* Metric.__call__ without its final raise: any table that is no pyspark
\* frame is handed to the pandas strategy.
Metric_call_FallThrough(m, df) ==
    IF df.kind = "pyspark" THEN call_pyspark(m, df.rows) ELSE call_pandas(m, df.rows)

\* Metric.__call__: df is a table [kind, rows].
Metric_call(m, df) ==
    IF df.kind = "pandas" THEN call_pandas(m, df.rows)
    ELSE IF df.kind = "pyspark" THEN call_pyspark(m, df.rows)
    ELSE Raise(NotSupportedType, df.rows)

\* ------------------------------------------------------------------ report
VARIABLES
    checklist,      \* Report.checklist: sequence of [table_n, metric, limits]
    engine,         \* Report.engine
    tables,         \* the registry the caller hands to fit: name -> [kind, rows]
    tables0,        \* the registry as the caller built it
    report_,        \* Report.report_: NotSet until a fit assigns it
    pc,             \* "idle" (the caller runs) or "loop" (inside _fit_*)
    idx,            \* position of the for loop in the checklist
    result,         \* the local `result` of _fit_*: Unbound until assigned
    table_report,   \* the local ledger under construction
    ret,            \* outcome of the last call: [call, exc, value]
    fits,           \* outcomes of the fit calls that ended, in call order
    m_metric,       \* metric layer: the metric under evaluation
    m_df,           \* metric layer: kind -> rows, one dataset in both representations
    m_out           \* metric layer: kind -> outcome of metric(df), NotCalled before

vars == <<checklist, engine, tables, tables0, report_, pc, idx, result, table_report,
          ret, fits, m_metric, m_df, m_out>>
reportVars == <<checklist, engine, tables, tables0, report_, pc, idx, result,
                table_report, ret, fits>>
metricVars == <<m_metric, m_df, m_out>>

NotSet == [unset |-> TRUE]
Unbound == [unbound |-> TRUE]
NotCalled == [notcalled |-> TRUE]
NoValue == [novalue |-> TRUE]

\* result.get(key, None)
Get(res, key) == IF key \in DOMAIN res THEN res[key] ELSE None

\* The limit check with the upper bound exclusive (lower <= value < upper).
RECURSIVE CheckLimits_UpperExclusive(_, _, _)
CheckLimits_UpperExclusive(res, limits, i) ==
    IF i > Len(limits) THEN "."
    ELSE LET value == Get(res, limits[i][1])
         IN IF value = None THEN "F"
            ELSE IF value.t = "str" THEN "raise"
            ELSE IF IsNumber(value) /\ NumLe(limits[i][2], value) /\ NumLt(value, limits[i][3])
                 THEN CheckLimits_UpperExclusive(res, limits, i + 1)
                 ELSE "F"

\* Lines 57-64: limits is a sequence of <<key, lower, upper>> in dict order.
\* "." when every key passes, "F" at the first failing key; "raise" when
\* lower <= value is evaluated on a str value (TypeError).
RECURSIVE CheckLimits(_, _, _)
CheckLimits(res, limits, i) ==
    IF i > Len(limits) THEN "."
    ELSE LET value == Get(res, limits[i][1])
             lower_limit == limits[i][2]
             upper_limit == limits[i][3]
         IN IF value = None THEN "F"
            ELSE IF value.t = "str" THEN "raise"
            ELSE IF IsNumber(value) /\ NumLe(lower_limit, value) /\ NumLe(value, upper_limit)
                 THEN CheckLimits(res, limits, i + 1)
                 ELSE "F"

Row(entry, values, status, error) ==
    [table_name |-> entry.table_n, metric |-> entry.metric, limits |-> entry.limits,
     values |-> values, status |-> status, error |-> error]

\* Lines 34-43: the dict a supported engine's fit starts from.
NewReport(tbls) ==
    [title |-> DOMAIN tbls, result |-> << >>, passed |-> 0, failed |-> 0, errors |-> 0,
     total |-> 0]

\* The percentage cut off after its second decimal instead of rounded.
Pct_Truncated(count, suma) == (count * 10000) \div suma

\* 2^e modulo m.
RECURSIVE Pow2Mod(_, _)
Pow2Mod(e, m) == IF e = 0 THEN 1 % m ELSE (2 * Pow2Mod(e - 1, m)) % m

\* The double x that count * 100 / suma evaluates to when the quotient is
\* the decimal tie N / 200 (N odd, 1 <= N <= 20001): the sign of x - N / 200.
\* x is the multiple of 2^-e nearest to the quotient, where e puts the
\* quotient * 2^e between 2^52 and 2^53; the remainder of N * 2^e modulo
\* 200 tells on which side of the quotient x lies (0: x is the quotient).
DoubleSide(N) ==
    LET AtLeastPow2(L) == IF L >= 0 THEN 200 * 2^L <= N ELSE 200 <= N * 2^(0 - L)
        L == SetMax({k \in (0 - 8)..7 : AtLeastPow2(k)})
        rem == ((N % 200) * Pow2Mod(52 - L, 200)) % 200
    IN IF rem = 0 THEN 0 ELSE IF rem < 100 THEN 0 - 1 ELSE 1

\* round(count * 100 / suma, 2) in hundredths of a percent (suma > 0):
\* round() rounds the double the division produced.  When the exact
\* quotient lies halfway between two hundredths the double decides: above
\* the quotient it rounds up, below it rounds down, and only a double equal
\* to the quotient is a tie for round(), which goes to the even hundredth.
Pct(count, suma) ==
    LET q == (count * 10000) \div suma
        r == (count * 10000) % suma
        side == DoubleSide(2 * q + 1)
    IN IF 2 * r > suma THEN q + 1
       ELSE IF 2 * r < suma THEN q
       ELSE IF side > 0 THEN q + 1
       ELSE IF side < 0 THEN q
       ELSE IF q % 2 = 1 THEN q + 1 ELSE q

\* The counters with the except block forgetting errors += 1.
Bump_ErrorsUncounted(rep, status) ==
    LET counted == IF status = "." THEN [rep EXCEPT !.passed = @ + 1]
                   ELSE IF status = "F" THEN [rep EXCEPT !.failed = @ + 1]
                   ELSE rep
    IN [counted EXCEPT !.total = @ + 1]

\* The counters after an entry of the given status: lines 75-78 (passed or
\* failed), line 89 (errors) and the finally clause, line 92 (total).
Bump(rep, status) ==
    LET counted == IF status = "." THEN [rep EXCEPT !.passed = @ + 1]
                   ELSE IF status = "F" THEN [rep EXCEPT !.failed = @ + 1]
                   ELSE [rep EXCEPT !.errors = @ + 1]
    IN [counted EXCEPT !.total = @ + 1]

\* One pass of the loop body (lines 52-92) for `entry`, from the local
\* `res`, the registry `tbls`, the ledger `ledger` and the dict `rep`:
\* [exc, result, tables, ledger, report].  exc is the exception leaving the
\* except block (NoExc when the pass completes).
LoopBody(entry, res, tbls, ledger, rep) ==
    LET found == entry.table_n \in DOMAIN tbls
        out == IF found THEN Metric_call(entry.metric, tbls[entry.table_n])
               ELSE Raise(KeyError(entry.table_n), << >>)
        \* the frame in the registry is the object the metric worked on
        tbls1 == IF found THEN [tbls EXCEPT ![entry.table_n].rows = out.rows] ELSE tbls
        \* line 55 binds result only when metric(table) returned
        res1 == IF out.exc = NoExc THEN out.result ELSE res
        status == IF out.exc = NoExc THEN CheckLimits(res1, entry.limits, 1) ELSE "raise"
        e == IF out.exc # NoExc THEN out.exc ELSE CompareError
    IN IF status \in {".", "F"}
       THEN [exc |-> NoExc, result |-> res1, tables |-> tbls1,
             ledger |-> Append(ledger, Row(entry, res1, status, "")),
             report |-> Bump(rep, status)]
       ELSE IF res1 = Unbound
       \* line 86 reads the local `result` before any assignment; the
       \* finally clause still counts the entry
       THEN [exc |-> UnboundLocalError, result |-> res1, tables |-> tbls1,
             ledger |-> ledger, report |-> [rep EXCEPT !.total = @ + 1]]
       ELSE [exc |-> NoExc, result |-> res1, tables |-> tbls1,
             ledger |-> Append(ledger, Row(entry, res1, "E", e.msg)),
             report |-> Bump(rep, "E")]

\* The percentage step guarded against suma = 0 (a zero report is returned).
Finish_ZeroGuard(rep, ledger) ==
    LET r == [rep EXCEPT !.result = ledger]
        suma == r.passed + r.failed + r.errors
        den == IF suma = 0 THEN 1 ELSE suma
    IN [exc |-> NoExc,
        report |-> [title |-> r.title, result |-> r.result, passed |-> r.passed,
                    failed |-> r.failed, errors |-> r.errors, total |-> r.total,
                    passed_pct |-> Pct(r.passed, den),
                    failed_pct |-> Pct(r.failed, den),
                    errors_pct |-> Pct(r.errors, den)]]

\* Lines 94-98 on the dict `rep` and the finished ledger: [exc, report].
Finish(rep, ledger) ==
    LET r == [rep EXCEPT !.result = ledger]
        suma == r.passed + r.failed + r.errors
    IN IF suma = 0
       THEN [exc |-> ZeroDivisionError, report |-> r]
       ELSE [exc |-> NoExc,
             report |-> [title |-> r.title, result |-> r.result, passed |-> r.passed,
                         failed |-> r.failed, errors |-> r.errors, total |-> r.total,
                         passed_pct |-> Pct(r.passed, suma),
                         failed_pct |-> Pct(r.failed, suma),
                         errors_pct |-> Pct(r.errors, suma)]]

Call(name, exc, value) == [call |-> name, exc |-> exc, value |-> value]

UnknownEngine == Exc("NotImplementedError", "Only pandas and pyspark APIs currently supported!")

\* fit as if `result` were kept on the Report instead of being a local of
\* _fit_*: a result of the previous call is still bound when the loop starts.
Fit_KeepResult ==
    /\ pc = "idle"
    /\ Len(fits) < MaxFits
    /\ IF engine \in {"pandas", "pyspark"}
       THEN /\ report_' = NewReport(tables)
            /\ table_report' = << >>
            /\ idx' = 1
            /\ pc' = "loop"
            /\ UNCHANGED <<result, ret, fits>>
       ELSE /\ ret' = Call("fit", UnknownEngine, NoValue)
            /\ fits' = Append(fits, ret')
            /\ UNCHANGED <<report_, table_report, result, idx, pc>>
    /\ UNCHANGED <<checklist, engine, tables, tables0, metricVars>>

\* fit resetting self.report_ before it dispatches on the engine.
Fit_ResetFirst ==
    /\ pc = "idle"
    /\ Len(fits) < MaxFits
    /\ report_' = NewReport(tables)
    /\ IF engine \in {"pandas", "pyspark"}
       THEN /\ table_report' = << >>
            /\ result' = Unbound
            /\ idx' = 1
            /\ pc' = "loop"
            /\ UNCHANGED <<ret, fits>>
       ELSE /\ ret' = Call("fit", UnknownEngine, NoValue)
            /\ fits' = Append(fits, ret')
            /\ UNCHANGED <<table_report, result, idx, pc>>
    /\ UNCHANGED <<checklist, engine, tables, tables0, metricVars>>

\* Report.fit up to the for loop: dispatch on engine (lines 24-30), then
\* lines 34-51 of _fit_pandas (104-121 of _fit_pyspark).
Fit ==
    /\ pc = "idle"
    /\ Len(fits) < MaxFits
    /\ IF engine \in {"pandas", "pyspark"}
       THEN /\ report_' = NewReport(tables)
            /\ table_report' = << >>
            /\ result' = Unbound
            /\ idx' = 1
            /\ pc' = "loop"
            /\ UNCHANGED <<ret, fits>>
       ELSE /\ ret' = Call("fit", UnknownEngine, NoValue)
            /\ fits' = Append(fits, ret')
            /\ UNCHANGED <<report_, table_report, result, idx, pc>>
    /\ UNCHANGED <<checklist, engine, tables, tables0, metricVars>>

\* One iteration of the for loop: try / except / finally for checklist[idx].
FitIter ==
    /\ pc = "loop"
    /\ idx <= Len(checklist)
    /\ LET step == LoopBody(checklist[idx], result, tables, table_report, report_)
       IN /\ tables' = step.tables
          /\ result' = step.result
          /\ table_report' = step.ledger
          /\ report_' = step.report
          /\ IF step.exc = NoExc
             THEN /\ idx' = idx + 1
                  /\ UNCHANGED <<pc, ret, fits>>
             ELSE /\ pc' = "idle"
                  /\ ret' = Call("fit", step.exc, NoValue)
                  /\ fits' = Append(fits, ret')
                  /\ UNCHANGED idx
    /\ UNCHANGED <<checklist, engine, tables0, metricVars>>

\* Lines 94-100: the ledger becomes report['result'], then the percentages.
FitEnd ==
    /\ pc = "loop"
    /\ idx > Len(checklist)
    /\ LET fin == Finish(report_, table_report)
       IN /\ report_' = fin.report
          /\ ret' = Call("fit", fin.exc, IF fin.exc = NoExc THEN fin.report ELSE NoValue)
    /\ fits' = Append(fits, ret')
    /\ pc' = "idle"
    /\ UNCHANGED <<checklist, engine, tables, tables0, idx, result, table_report, metricVars>>

\* Report.to_str (lines 176-200).  Line 178 reads self.report_, an attribute
\* only _fit_* creates; the assertion of line 185 then sees the dict a fit
\* stored; the f-string reads the *_pct keys, which line 96 onwards adds.
ToStr ==
    /\ pc = "idle"
    /\ ret' = IF report_ = NotSet THEN Call("to_str", AttributeError, NoValue)
              ELSE IF "title" \notin DOMAIN report_
                   THEN Call("to_str", NotFittedError, NoValue)
              ELSE IF "passed_pct" \notin DOMAIN report_
                   THEN Call("to_str", KeyError("passed_pct"), NoValue)
              ELSE Call("to_str", NoExc, report_)
    /\ UNCHANGED <<checklist, engine, tables, tables0, report_, pc, idx, result,
                   table_report, fits, metricVars>>

\* ------------------------------------------------------------------ inputs
SeqUpTo(S, n) == UNION {[1..k -> S] : k \in 0..n}

R(x, y, z, d) == [x |-> x, y |-> y, z |-> z, d |-> d]

\* The table T of the scenarios (x = 0, 0, 5; y = 1, 2, 1), with a date
\* column holding two dates and one text that is no date.
TableT == <<R(PyInt(0), PyInt(1), PyInt(0), PyStr(1)),
            R(PyInt(0), PyInt(2), PyInt(0), PyStr(0)),
            R(PyInt(5), PyInt(1), PyInt(0), PyStr(MaxDay))>>
\* A table whose date column holds no parseable date.
TableNoDate == <<R(PyInt(1), PyInt(1), PyInt(0), PyStr(0))>>
TableEmpty == << >>

Frame(kind, rows) == [kind |-> kind, rows |-> rows]

\* <<engine, registry>> pairs a Report is fitted with.  Most registries
\* hold the table "t" alone, so that "u" is a name missing from them; a list
\* is a table that is neither a pandas nor a pyspark frame, "dask" an
\* unknown engine.
Setups ==
    {<<k, [t |-> Frame(k, rows)]>> : k \in {"pandas", "pyspark"},
                                      rows \in {TableT, TableNoDate, TableEmpty}}
    \cup {<<"pandas", [t |-> Frame("pandas", TableT), u |-> Frame("list", TableT)]>>,
          <<"pyspark", [t |-> Frame("pandas", TableT)]>>,
          <<"dask", [t |-> Frame("pandas", TableT)]>>}

Entry(table_n, metric, limits) == [table_n |-> table_n, metric |-> metric, limits |-> limits]
Limit(key, lower, upper) == <<key, lower, upper>>

CoreEntries ==
    {Entry("u", CountTotal, << >>),
     Entry("t", CountTotal, << >>),
     Entry("t", CountTotal, <<Limit("total", PyInt(1), PyInt(3))>>),
     Entry("t", CountZeros("x"), << >>),
     Entry("t", CountNull(<<"d">>, "any"), << >>),
     Entry("t", CountLag("d"), << >>),
     Entry("t", CountLag("d"), <<Limit("lag", PyInt(0), PyInt(1))>>)}

\* Limits of up to two keys over every kind of result value, for checklists
\* of one entry.
LimitItems == {Limit("delta", PyFloat(1, 2), PyInt(1)), Limit("count", PyInt(2), PyInt(10)),
               Limit("total", PyInt(3), PyInt(3)), Limit("lag", PyInt(0), PyInt(1)),
               Limit("today", PyInt(0), PyInt(Today)), Limit("median", PyInt(0), PyInt(1))}
RichEntries ==
    {Entry("t", m, l) : m \in {CountZeros("x"), CountValue("x", PyInt(5)), CountLag("d")},
                        l \in SeqUpTo(LimitItems, 2)}

Checklists == SeqUpTo(CoreEntries, MaxChecks) \cup {<<e>> : e \in RichEntries}

NoMetric == [kind |-> ""]

Init ==
    /\ checklist \in Checklists
    /\ \E s \in Setups : engine = s[1] /\ tables = s[2]
    /\ tables0 = tables
    /\ report_ = NotSet
    /\ pc = "idle"
    /\ idx = 0
    /\ result = Unbound
    /\ table_report = << >>
    /\ ret = Call("", NoExc, NoValue)
    /\ fits = << >>
    /\ m_metric = NoMetric
    /\ m_df = << >>
    /\ m_out = << >>

Next == Fit \/ FitIter \/ FitEnd \/ ToStr

Spec == Init /\ [][Next]_vars

\* ------------------------------------------------------------------ percentages
\* Checklists over three entries on the pandas table T, one that passes, one
\* that fails (no 'lag' in the result of CountTotal) and one that errs at any
\* position (the limit on the string 'today'): every split of total into
\* passed, failed and errors is the outcome of some checklist.
PctEntries ==
    {Entry("t", CountTotal, << >>),
     Entry("t", CountTotal, <<Limit("lag", PyInt(0), PyInt(1))>>),
     Entry("t", CountLag("d"), <<Limit("today", PyInt(0), PyInt(Today))>>)}

\* Checklists of n entries, the first k passing and the others failing.
PassFail(k, n) ==
    [i \in 1..n |-> IF i <= k THEN Entry("t", CountTotal, << >>)
                    ELSE Entry("t", CountTotal, <<Limit("lag", PyInt(0), PyInt(1))>>)]
\* A total at which percentages lie halfway between two hundredths: 1 of 32
\* is 3.125 and 3 of 32 is 9.375, both of them doubles.  (A halfway quotient
\* that no double equals needs a total that is a multiple of 4000.)
TieChecklists == {PassFail(k, TieChecks) : k \in {1, 3}}

InitPct ==
    /\ checklist \in SeqUpTo(PctEntries, MaxPctChecks) \cup TieChecklists
    /\ engine = "pandas"
    /\ tables = [t |-> Frame("pandas", TableT)]
    /\ tables0 = tables
    /\ report_ = NotSet
    /\ pc = "idle"
    /\ idx = 0
    /\ result = Unbound
    /\ table_report = << >>
    /\ ret = Call("", NoExc, NoValue)
    /\ fits = << >>
    /\ m_metric = NoMetric
    /\ m_df = << >>
    /\ m_out = << >>

SpecPct == InitPct /\ [][Next]_vars

\* ------------------------------------------------------------------ refitting
\* fit takes the registry as its argument: between two fit calls on one
\* Report the caller may build another registry for the next call.
Registries == {s[2] : s \in Setups}
Rebind(tbls) ==
    /\ pc = "idle"
    /\ fits # << >>
    /\ Len(fits) < MaxFits
    /\ tbls # tables
    /\ tables' = tbls
    /\ tables0' = tbls
    /\ UNCHANGED <<checklist, engine, report_, pc, idx, result, table_report, ret, fits,
                   metricVars>>

\* Entries whose outcome depends on the registry: a table name most
\* registries lack, a metric that raises on an empty table, and a date-lag
\* whose limit on 'today' raises in the comparison.
RefitEntries ==
    {Entry("u", CountTotal, << >>),
     Entry("t", CountTotal, << >>),
     Entry("t", CountZeros("x"), << >>),
     Entry("t", CountLag("d"), <<Limit("today", PyInt(0), PyInt(Today))>>)}

InitRefit ==
    /\ checklist \in SeqUpTo(RefitEntries, MaxChecks)
    /\ \E s \in Setups : engine = s[1] /\ tables = s[2]
    /\ tables0 = tables
    /\ report_ = NotSet
    /\ pc = "idle"
    /\ idx = 0
    /\ result = Unbound
    /\ table_report = << >>
    /\ ret = Call("", NoExc, NoValue)
    /\ fits = << >>
    /\ m_metric = NoMetric
    /\ m_df = << >>
    /\ m_out = << >>

\* engine is a plain dataclass field: the caller may assign another engine
\* name to the Report between two fit calls.
Engines == {s[1] : s \in Setups}
SetEngine(e) ==
    /\ pc = "idle"
    /\ fits # << >>
    /\ Len(fits) < MaxFits
    /\ e # engine
    /\ engine' = e
    /\ UNCHANGED <<checklist, tables, tables0, report_, pc, idx, result, table_report,
                   ret, fits, metricVars>>

NextRefit ==
    \/ Next
    \/ \E tbls \in Registries : Rebind(tbls)
    \/ \E e \in Engines : SetEngine(e)

SpecRefit == InitRefit /\ [][NextRefit]_vars

\* ------------------------------------------------------------------ metric layer
NumRows == {R(x, y, PyInt(0), None) : x \in {None, PyInt(-1), PyInt(0), PyInt(1)},
                                       y \in {None, PyInt(0), PyInt(1)}}
            \cup {R(PyInt(0), PyInt(1), None, None)}
DateRows == {R(PyInt(0), PyInt(1), PyInt(0), PyStr(k)) : k \in 0..MaxDay}
Rows == NumRows \cup DateRows

Metrics ==
    {CountTotal, CountZeros("x"), CountDuplicates(<<"x">>), CountValue("x", PyInt(1)),
     CountLag("d")}
    \cup {CountNull(<<"x", "y">>, a) : a \in {"any", "all"}}
    \cup {CountBelowValue("x", PyInt(0), s) : s \in BOOLEAN}
    \cup {CountBelowColumn("x", "y", s) : s \in BOOLEAN}
    \cup {CountRatioBelow("x", "y", "z", s) : s \in BOOLEAN}

Kinds == {"pandas", "pyspark"}

InitMetric ==
    /\ m_metric \in Metrics
    /\ \E rows \in SeqUpTo(Rows, MaxRows) : m_df = [k \in Kinds |-> rows]
    /\ m_out = [k \in Kinds |-> NotCalled]
    /\ checklist = << >>
    /\ engine = "pandas"
    /\ tables = << >>
    /\ tables0 = << >>
    /\ report_ = NotSet
    /\ pc = "metric"
    /\ idx = 0
    /\ result = Unbound
    /\ table_report = << >>
    /\ ret = Call("", NoExc, NoValue)
    /\ fits = << >>

\* metric(df) on the dataset held as a `kind` frame.
MetricCall(kind) ==
    /\ pc = "metric"
    /\ m_out[kind] = NotCalled
    /\ LET out == Metric_call(m_metric, Frame(kind, m_df[kind]))
       IN /\ m_out' = [m_out EXCEPT ![kind] = out]
          /\ m_df' = [m_df EXCEPT ![kind] = out.rows]
    /\ UNCHANGED <<m_metric, reportVars>>

NextMetric == \E kind \in Kinds : MetricCall(kind)

SpecMetric == InitMetric /\ [][NextMetric]_vars

\* ------------------------------------------------------------------ claims
Supported == engine \in {"pandas", "pyspark"}
\* The for loop is about to run the body for checklist[idx].
InLoop == pc = "loop" /\ idx <= Len(checklist)
\* The table lookup or the metric evaluation of `entry` raises on `tbls`.
EntryRaises(entry, tbls) ==
    \/ entry.table_n \notin DOMAIN tbls
    \/ Metric_call(entry.metric, tbls[entry.table_n]).exc # NoExc
\* The exception that lookup or evaluation raises.
EntryExc(entry, tbls) ==
    IF entry.table_n \notin DOMAIN tbls THEN KeyError(entry.table_n)
    ELSE Metric_call(entry.metric, tbls[entry.table_n]).exc
LastRow(ledger) == ledger[Len(ledger)]
\* The loop body appended one row and went on to the next entry.
RowAdded == /\ pc' = "loop"
            /\ idx' = idx + 1
            /\ Len(table_report') = Len(table_report) + 1

\* C1: whenever the table lookup or the metric of an entry raises, at any
\* position of the checklist, fit does not raise: the entry gets an 'E' row
\* with the exception's message, errors grows by exactly 1 and the loop
\* goes on to the next entry.
C1_FailureContained ==
    [][(InLoop /\ EntryRaises(checklist[idx], tables)) =>
          /\ RowAdded
          /\ LastRow(table_report').status = "E"
          /\ LastRow(table_report').error = EntryExc(checklist[idx], tables).msg
          /\ report_'.errors = report_.errors + 1
          /\ report_'.passed = report_.passed
          /\ report_'.failed = report_.failed]_vars

\* C2: every report fit returns has passed + failed + errors = total =
\* len(checklist); inside the loop each entry adds 1 to total and to exactly
\* one of passed, failed, errors.
C2_CountersAddUp ==
    /\ pc = "loop" =>
          /\ report_.passed + report_.failed + report_.errors = report_.total
          /\ report_.total = idx - 1
    /\ \A k \in 1..Len(fits) :
          fits[k].exc = NoExc =>
             LET r == fits[k].value
             IN /\ r.passed + r.failed + r.errors = r.total
                /\ r.total = Len(checklist)

\* A returned report that counts a passed, a failed and an errored entry.
C2_Witness ==
    \E k \in 1..Len(fits) :
       /\ fits[k].exc = NoExc
       /\ fits[k].value.passed = 1
       /\ fits[k].value.failed = 1
       /\ fits[k].value.errors = 1

\* C3: after any fit call with a supported engine the stored ledger has
\* one row per checklist entry, in checklist order, len(ledger) =
\* len(checklist) = total, and every status is one of '.', 'F', 'E'.
C3_OneRowPerEntry ==
    (pc = "idle" /\ fits # << >> /\ Supported) =>
       /\ Len(report_.result) = Len(checklist)
       /\ report_.total = Len(checklist)
       /\ \A i \in 1..Len(report_.result) :
             /\ report_.result[i].table_name = checklist[i].table_n
             /\ report_.result[i].metric = checklist[i].metric
             /\ report_.result[i].status \in {".", "F", "E"}

\* The key of `lim` is present in `res` with a non-null number v,
\* lower <= v <= upper.
InRange(res, lim) ==
    /\ lim[1] \in DOMAIN res
    /\ IsNumber(res[lim[1]])
    /\ NumLe(lim[2], res[lim[1]])
    /\ NumLe(res[lim[1]], lim[3])
AllInRange(res, limits) == \A i \in 1..Len(limits) : InRange(res, limits[i])
\* The first key of limits that is not in range holds a str.
FirstFailureIsStr(res, limits) ==
    \E i \in 1..Len(limits) :
       /\ \A j \in 1..(i - 1) : InRange(res, limits[j])
       /\ limits[i][1] \in DOMAIN res
       /\ res[limits[i][1]].t = "str"
\* The counters moved by exactly one entry of status st.
Counted(st) ==
    /\ report_'.passed = report_.passed + (IF st = "." THEN 1 ELSE 0)
    /\ report_'.failed = report_.failed + (IF st = "F" THEN 1 ELSE 0)
    /\ report_'.errors = report_.errors + (IF st = "E" THEN 1 ELSE 0)

\* C4 as claimed: for an entry whose metric evaluation succeeds the status
\* is '.' iff every key of limits is in range, and 'F' otherwise; '.' adds
\* to passed and 'F' to failed.
C4_StatusFromLimits ==
    [][(InLoop /\ ~EntryRaises(checklist[idx], tables)) =>
          LET e == checklist[idx]
              res == Metric_call(e.metric, tables[e.table_n]).result
              st == IF AllInRange(res, e.limits) THEN "." ELSE "F"
          IN /\ RowAdded
             /\ LastRow(table_report').status = st
             /\ Counted(st)]_vars

\* C4 amended: for an entry whose metric evaluation succeeds the status is
\* '.' iff every key of limits is in range; otherwise it is decided at the
\* first key that is not in range: 'E' (TypeError text, errors + 1) when the
\* value there is a string, 'F' in every other case (absent, null, nan or
\* out of range).  Empty limits pass.
C4_StatusFromLimitsOrTypeError ==
    [][(InLoop /\ ~EntryRaises(checklist[idx], tables)) =>
          LET e == checklist[idx]
              res == Metric_call(e.metric, tables[e.table_n]).result
              st == IF AllInRange(res, e.limits) THEN "."
                    ELSE IF FirstFailureIsStr(res, e.limits) THEN "E" ELSE "F"
          IN /\ RowAdded
             /\ LastRow(table_report').status = st
             /\ LastRow(table_report').values = res
             /\ LastRow(table_report').error = (IF st = "E" THEN CompareError.msg ELSE "")
             /\ (e.limits = << >> => st = ".")
             /\ Counted(st)]_vars

\* A returned report whose entry passed a check of two keys, one of them
\* sitting on its inclusive bound (total = 3 in [3, 3]).
C4_Witness ==
    /\ pc = "idle"
    /\ fits # << >>
    /\ fits[Len(fits)].exc = NoExc
    /\ \E i \in 1..Len(report_.result) :
          /\ report_.result[i].status = "."
          /\ Len(report_.result[i].limits) = 2
          /\ Limit("total", PyInt(3), PyInt(3)) \in
                {report_.result[i].limits[j] : j \in 1..2}
    /\ report_.passed = 1

\* What a strategy reported for the counting keys.
Counts(out) == [key \in {"total", "count", "delta"} |-> Get(out.result, key)]

\* C5: on the same dataset the pandas and the pyspark strategy of every
\* metric kind return the same total, count and delta (and so one raises
\* only if the other does).
C5_Parity ==
    (/\ pc = "metric"
     /\ m_metric.kind # "CountLag"
     /\ m_out["pandas"] # NotCalled
     /\ m_out["pyspark"] # NotCalled) =>
       /\ (m_out["pandas"].exc = NoExc) = (m_out["pyspark"].exc = NoExc)
       /\ Counts(m_out["pandas"]) = Counts(m_out["pyspark"])

\* The entry's table is registered and is neither a pandas nor a pyspark frame.
Unsupported(entry, tbls) ==
    /\ entry.table_n \in DOMAIN tbls
    /\ tbls[entry.table_n].kind \notin {"pandas", "pyspark"}

\* C6 as claimed: an entry whose table is neither pandas nor pyspark makes
\* fit end with the unsupported-table-kind error, and no ledger row is
\* written for it.
C6_UnsupportedPropagates ==
    [][(InLoop /\ Unsupported(checklist[idx], tables)) =>
          /\ pc' = "idle"
          /\ ret' = Call("fit", NotSupportedType, NoValue)
          /\ table_report' = table_report]_vars

\* C6 amended: the metric raises the unsupported-table-kind error and the
\* per-entry handler of fit catches it like any other failure: the error
\* never reaches the caller; when an earlier entry of this fit call
\* succeeded the entry gets an 'E' row with the error's message and errors
\* grows by 1, otherwise the handler itself raises UnboundLocalError.
C6_UnsupportedCaught ==
    [][(InLoop /\ Unsupported(checklist[idx], tables)) =>
          /\ Metric_call(checklist[idx].metric, tables[checklist[idx].table_n]).exc
                = NotSupportedType
          /\ IF result = Unbound
             THEN /\ pc' = "idle"
                  /\ ret' = Call("fit", UnboundLocalError, NoValue)
             ELSE /\ RowAdded
                  /\ LastRow(table_report').status = "E"
                  /\ LastRow(table_report').error = NotSupportedType.msg
                  /\ Counted("E")]_vars

\* A returned report holding an 'E' row for an entry on the list table.
C6_Witness ==
    /\ pc = "idle"
    /\ fits # << >>
    /\ fits[Len(fits)].exc = NoExc
    /\ \E i \in 1..Len(report_.result) :
          /\ Unsupported(checklist[i], tables)
          /\ report_.result[i].status = "E"
          /\ report_.result[i].error = NotSupportedType.msg

\* C7: fit on an empty checklist (supported engine) raises
\* ZeroDivisionError in the percentage step and returns no report.
C7_EmptyChecklistRaises ==
    (checklist = << >> /\ Supported) =>
       \A k \in 1..Len(fits) : fits[k] = Call("fit", ZeroDivisionError, NoValue)

\* A fit call on an empty checklist has ended.
C7_Witness ==
    /\ checklist = << >>
    /\ Supported
    /\ pc = "idle"
    /\ fits # << >>
    /\ report_.total = 0

\* C8: to_str on a Report never fitted raises the not-fitted assertion
\* error; after a fit that returned, to_str succeeds and renders the report.
C8_NotFittedAssertion ==
    (pc = "idle" /\ ret.call = "to_str") =>
       /\ fits = << >> => ret.exc = NotFittedError
       /\ (fits # << >> /\ fits[Len(fits)].exc = NoExc) =>
             (ret.exc = NoExc /\ ret.value = fits[Len(fits)].value)

\* C9: a second fit on the same Report with the same checklist and tables
\* returns a report equal to the one the first fit returned.
C9_RefitEqual ==
    \A k \in 1..(Len(fits) - 1) : fits[k].exc = NoExc => fits[k + 1] = fits[k]

\* C10: a metric evaluation that returns leaves every table of the registry
\* with the values it had before.
C10_TablesUnchanged ==
    [][(InLoop /\ ~EntryRaises(checklist[idx], tables)) => tables' = tables]_vars

\* The strategy `kind` of the metric under evaluation has returned.
Returned(kind) ==
    /\ pc = "metric"
    /\ m_out[kind] # NotCalled
    /\ m_out[kind].exc = NoExc
\* The rows whose key over `columns` is shared by at least one other row.
SharedKeyRows(rows, columns) ==
    {i \in 1..Len(rows) :
        \E j \in 1..Len(rows) : j # i /\ Subset(rows[j], columns) = Subset(rows[i], columns)}

\* C11: duplicate-count returns total = the number of rows and count = the
\* number of rows whose key over the given columns is shared by at least one
\* other row (every member of a repeated group counts), in both strategies.
C11_DuplicateCount ==
    \A kind \in Kinds :
       (Returned(kind) /\ m_metric.kind = "CountDuplicates") =>
          /\ m_out[kind].result.total = PyInt(Len(m_df[kind]))
          /\ m_out[kind].result.count =
                PyInt(Cardinality(SharedKeyRows(m_df[kind], m_metric.columns)))

\* C12: below-threshold-count honours strict: it counts the rows with
\* column < value when strict is True and the rows with column <= value
\* when strict is False, in both strategies.
C12_StrictHonoured ==
    \A kind \in Kinds :
       (Returned(kind) /\ m_metric.kind = "CountBelowValue") =>
          LET rows == m_df[kind]
              Below(r) == /\ IsNumber(r[m_metric.column])
                          /\ IF m_metric.strict THEN NumLt(r[m_metric.column], m_metric.value)
                                                ELSE NumLe(r[m_metric.column], m_metric.value)
          IN m_out[kind].result.count =
                PyInt(Cardinality({i \in 1..Len(rows) : Below(rows[i])}))

\* The columns a pairwise metric compares.
Compared(m) == IF m.kind = "CountBelowColumn" THEN {m.column_x, m.column_y}
               ELSE {m.column_x, m.column_y, m.column_z}
NoNull(r, columns) == \A c \in columns : ~IsNull(r[c])
\* The comparison of the metric on a row without nulls, judged exactly:
\* x below y, or x / y below z for a divisor y # 0.
PairBelow(m, r) ==
    IF m.kind = "CountBelowColumn"
    THEN IF m.strict THEN NumLt(r[m.column_x], r[m.column_y])
                     ELSE NumLe(r[m.column_x], r[m.column_y])
    ELSE LET x == r[m.column_x]
             y == r[m.column_y]
             z == r[m.column_z]
             lhs == x.n * y.d * z.d
             rhs == z.n * y.n * x.d
         IN /\ y.n # 0
            /\ IF y.n > 0 THEN (IF m.strict THEN lhs < rhs ELSE lhs <= rhs)
                          ELSE (IF m.strict THEN lhs > rhs ELSE lhs >= rhs)
Pairwise == m_metric.kind \in {"CountBelowColumn", "CountRatioBelow"}

\* C13 as claimed: for column-below-column and ratio-below-threshold the
\* rows holding a null in a compared column are left out of total and of
\* count, in both strategies: total = the number of rows without nulls.
C13_NullRowsExcluded ==
    \A kind \in Kinds :
       (Returned(kind) /\ Pairwise) =>
          LET rows == m_df[kind]
              full == {i \in 1..Len(rows) : NoNull(rows[i], Compared(m_metric))}
          IN /\ m_out[kind].result.total = PyInt(Cardinality(full))
             /\ m_out[kind].result.count.n <= Cardinality(full)

\* C13 amended: in both strategies total is the row count of the table,
\* rows with nulls included; only count leaves them out: it counts the
\* rows without nulls that satisfy the comparison (rows whose divisor is 0
\* may or may not be counted by ratio-below-threshold).
C13_NullRowsOnlyLeaveCount ==
    \A kind \in Kinds :
       (Returned(kind) /\ Pairwise) =>
          LET rows == m_df[kind]
              full == {i \in 1..Len(rows) : NoNull(rows[i], Compared(m_metric))}
              sure == {i \in full : PairBelow(m_metric, rows[i])}
              zero == {i \in full : /\ m_metric.kind = "CountRatioBelow"
                                    /\ rows[i][m_metric.column_y].n = 0}
          IN /\ m_out[kind].result.total = PyInt(Len(rows))
             /\ m_out[kind].result.count.n >= Cardinality(sure)
             /\ m_out[kind].result.count.n <= Cardinality(sure) + Cardinality(zero)

\* The pyspark strategy of column-below-column returned for a table of three
\* rows, one of them holding a null and one of them counted.
C13_Witness ==
    /\ Returned("pyspark")
    /\ m_metric.kind = "CountBelowColumn"
    /\ m_out["pyspark"].result.total = PyInt(3)
    /\ m_out["pyspark"].result.count = PyInt(1)
    /\ \E i \in 1..Len(m_df["pyspark"]) : ~NoNull(m_df["pyspark"][i], Compared(m_metric))

\* No cell of `column` is a date: neither a date string nor a timestamp.
NoParseableDate(rows, column) ==
    \A i \in 1..Len(rows) : ~(rows[i][column].t = "ts" \/ (rows[i][column].t = "str" /\ rows[i][column].n > 0))
\* The entry is date-lag on a registered pandas or pyspark table whose
\* column holds no parseable date.
LagWithoutDate(entry, tbls) ==
    /\ entry.metric.kind = "CountLag"
    /\ entry.table_n \in DOMAIN tbls
    /\ tbls[entry.table_n].kind \in Kinds
    /\ NoParseableDate(tbls[entry.table_n].rows, entry.metric.column)

\* C14: date-lag on a column with no parseable date returns a result whose
\* lag is null instead of raising, in both strategies; an entry whose limits
\* are on 'lag' is then recorded as 'F'.
C14_LagNullNotRaise ==
    [][(InLoop /\ LagWithoutDate(checklist[idx], tables)) =>
          LET e == checklist[idx]
              out == Metric_call(e.metric, tables[e.table_n])
          IN /\ out.exc = NoExc
             /\ out.result.lag = None
             /\ (e.limits # << >> /\ \A i \in 1..Len(e.limits) : e.limits[i][1] = "lag") =>
                    (RowAdded /\ LastRow(table_report').status = "F")]_vars

Abs(i) == IF i < 0 THEN -i ELSE i
\* pct, in hundredths of a percent, is count * 100 / total rounded to 2
\* decimal places: no hundredth is nearer to the quotient.
RoundedPct(pct, count, total) == 2 * Abs(pct * total - count * 10000) <= total

\* C15: in every returned report each of passed_pct, failed_pct and
\* errors_pct is its counter * 100 / total rounded to 2 decimal places, and
\* the three add up to 100.00 within 0.01.
C15_PercentagesRounded ==
    \A k \in 1..Len(fits) :
       fits[k].exc = NoExc =>
          LET r == fits[k].value
          IN /\ r.total > 0
             /\ RoundedPct(r.passed_pct, r.passed, r.total)
             /\ RoundedPct(r.failed_pct, r.failed, r.total)
             /\ RoundedPct(r.errors_pct, r.errors, r.total)
             /\ Abs(r.passed_pct + r.failed_pct + r.errors_pct - 10000) <= 1

\* A returned report of 4 passed, 1 failed and 1 errored entries: 66.67,
\* 16.67 and 16.67 add up to 100.01.
C15_Witness ==
    \E k \in 1..Len(fits) :
       /\ fits[k].exc = NoExc
       /\ fits[k].value.passed = 4
       /\ fits[k].value.failed = 1
       /\ fits[k].value.errors = 1
       /\ fits[k].value.passed_pct = 6667
       /\ fits[k].value.passed_pct + fits[k].value.failed_pct + fits[k].value.errors_pct = 10001

\* The metric kinds that return {total, count, delta}.
CountingKinds == {"CountZeros", "CountNull", "CountDuplicates", "CountValue",
                  "CountBelowValue", "CountBelowColumn", "CountRatioBelow"}
\* The entry is a counting metric on a registered pandas or pyspark table
\* that has no row.
CountingOnEmpty(entry, tbls) ==
    /\ entry.metric.kind \in CountingKinds
    /\ entry.table_n \in DOMAIN tbls
    /\ tbls[entry.table_n].kind \in Kinds
    /\ tbls[entry.table_n].rows = << >>

\* C16: a counting metric of any kind evaluated on a table with zero rows
\* fails with the division by zero of delta = count / total, and fit records
\* the entry as an 'E' row holding that message, never as '.' or 'F'.
C16_EmptyTableIsError ==
    [][(InLoop /\ CountingOnEmpty(checklist[idx], tables)) =>
          /\ Metric_call(checklist[idx].metric, tables[checklist[idx].table_n]).exc
                = ZeroDivisionError
          /\ RowAdded
          /\ LastRow(table_report').status = "E"
          /\ LastRow(table_report').error = ZeroDivisionError.msg]_vars

\* The metric evaluation of the entry behind `row` returned: the row is '.',
\* 'F', or 'E' from the comparison of the limits.
Succeeded(row) == row.status \in {".", "F"} \/ row.error = CompareError.msg
\* Every 'E' row written because lookup or evaluation raised holds the
\* values of the nearest earlier row of the ledger whose evaluation returned.
ValuesFromLastSuccess(ledger) ==
    \A i \in 1..Len(ledger) :
       ~Succeeded(ledger[i]) =>
          \E j \in 1..(i - 1) :
             /\ Succeeded(ledger[j])
             /\ \A k \in (j + 1)..(i - 1) : ~Succeeded(ledger[k])
             /\ ledger[i].values = ledger[j].values

\* C17: an 'E' row written because the table lookup or the metric
\* evaluation raised holds as 'values' the result of the most recent earlier
\* entry of the same fit call whose evaluation succeeded; no result of a
\* previous fit call is ever recorded.
C17_ValuesFromSameFit ==
    /\ pc = "loop" => ValuesFromLastSuccess(table_report)
    /\ \A k \in 1..Len(fits) :
          fits[k].exc = NoExc => ValuesFromLastSuccess(fits[k].value.result)

\* After a fit on a populated table the caller passed an empty one to the
\* second fit: its 'E' row for the division by zero holds the values of the
\* row before it, which no row of the first report holds.
C17_Witness ==
    /\ Len(fits) = 2
    /\ fits[1].exc = NoExc
    /\ fits[2].exc = NoExc
    /\ \E i \in 2..Len(fits[2].value.result) :
          LET row == fits[2].value.result[i]
          IN /\ row.status = "E"
             /\ row.error = ZeroDivisionError.msg
             /\ row.values = fits[2].value.result[i - 1].values
             /\ \A j \in 1..Len(fits[1].value.result) :
                   /\ fits[1].value.result[j].status # "E"
                   /\ fits[1].value.result[j].values # row.values

\* The fit calls that ran with a supported engine, by position in fits.
SupportedFits == {k \in 1..Len(fits) : fits[k].exc # UnknownEngine}
LastSupportedFit == fits[SetMax(SupportedFits)]
\* The dict of a fit that has not reached its percentage step.
Unfinished(rep) == DOMAIN rep = {"title", "result", "passed", "failed", "errors", "total"}

\* C18: a fit with a supported engine replaces the stored report before it
\* evaluates an entry, a fit with an unknown engine leaves it alone.  Between
\* calls the stored report is the one the most recent supported-engine fit
\* returned, and to_str renders exactly that; when that fit raised, the
\* stored dict holds counters without percentages, is none of the reports
\* returned earlier, and to_str fails.
C18_StoredReportFollowsLastFit ==
    /\ pc = "loop" => (Unfinished(report_) /\ report_.result = << >>)
    /\ (pc = "idle" /\ SupportedFits = {}) => report_ = NotSet
    /\ (pc = "idle" /\ SupportedFits # {}) =>
          IF LastSupportedFit.exc = NoExc
          THEN report_ = LastSupportedFit.value
          ELSE /\ Unfinished(report_)
               /\ \A k \in 1..Len(fits) : fits[k].exc = NoExc => report_ # fits[k].value
    /\ (pc = "idle" /\ ret.call = "to_str") =>
          IF SupportedFits # {} /\ LastSupportedFit.exc = NoExc
          THEN ret = Call("to_str", NoExc, LastSupportedFit.value)
          ELSE ret.exc # NoExc

\* A first fit returned a report, the second fit, with a supported engine,
\* raised, and to_str then failed on the missing percentage.
C18_Witness ==
    /\ pc = "idle"
    /\ Len(fits) = 2
    /\ fits[1].exc = NoExc
    /\ fits[2].exc \notin {NoExc, UnknownEngine}
    /\ ret = Call("to_str", KeyError("passed_pct"), NoValue)

====
